---- MODULE Spec2Model ----
(***************************************************************************)
(* Model of Dash.py, the WRPF UK Novice League leaderboard.                *)
(*                                                                         *)
(* main() loads the cleaned results table, process_novice() turns it into  *)
(* the ranked table and render_leaderboard() shows one tab per division.   *)
(*                                                                         *)
(* Encoding.  A pandas cell that may be missing (NaN, NaT, None) is an     *)
(* optional value: NA is the missing cell and Some(v) a present one.  A    *)
(* Python string that the code inspects character by character (the Sex    *)
(* cell) is a sequence of one-character strings.  A table is a sequence of *)
(* rows; a table derived by reordering or filtering the rows of df is the  *)
(* sequence of the row numbers of df it keeps, in its own order.  Scores   *)
(* and ranks are integers (the code's floats hold them exactly).           *)
(***************************************************************************)
EXTENDS Integers, Sequences, FiniteSets, TLC

VARIABLES df, pc, division, sorted, kept, agg, outcome, tabs

vars == <<df, pc, division, sorted, kept, agg, outcome, tabs>>

(***************************************************************************)
(* Bounds of the checked inputs.                                           *)
(***************************************************************************)
MaxRows == 4
MaxRankRows == 3
MaxDots == 2
MaxSexLen == 2
MaxAge == 41

(***************************************************************************)
(* Missing cells.                                                          *)
(***************************************************************************)
NA == <<>>

Some(v) == <<v>>

isna(x) == x = NA

(***************************************************************************)
(* The Python string operations of assign_division.                        *)
(***************************************************************************)
\* str(cell): a missing cell is the float nan, whose str() is "nan".
str(x) == IF isna(x) THEN <<"n", "a", "n">> ELSE x[1]

IsSpace(c) == c = " "

RECURSIVE lstrip(_)
lstrip(s) == IF s # <<>> /\ IsSpace(Head(s)) THEN lstrip(Tail(s)) ELSE s

RECURSIVE rstrip(_)
rstrip(s) ==
    IF s # <<>> /\ IsSpace(s[Len(s)]) THEN rstrip(SubSeq(s, 1, Len(s) - 1)) ELSE s

strip(s) == rstrip(lstrip(s))

UpperChar(c) ==
    CASE c = "m" -> "M"
      [] c = "f" -> "F"
      [] c = "a" -> "A"
      [] c = "l" -> "L"
      [] c = "e" -> "E"
      [] c = "n" -> "N"
      [] OTHER -> c

upper(s) == [i \in DOMAIN s |-> UpperChar(s[i])]

startswith(s, c) == s # <<>> /\ s[1] = c

(***************************************************************************)
(* assign_division(row)                                                    *)
(***************************************************************************)
\* AgeBand with the Junior boundary off by one.
AgeBandInclusive(age) ==
    IF age <= 24 THEN "Junior"
    ELSE IF age < 40 THEN "Open"
    ELSE "Masters"

AgeBand(age) ==
    IF age < 24 THEN "Junior"
    ELSE IF age < 40 THEN "Open"
    ELSE "Masters"

\* Gender without the upper() call.
GenderCaseSensitive(sex) ==
    IF startswith(strip(str(sex)), "M") THEN "Men" ELSE "Women"

Gender(sex) ==
    IF startswith(upper(strip(str(sex))), "M") THEN "Men" ELSE "Women"

\* assign_division without the pd.isna guard: the comparisons with a
\* missing age are false and the row falls through to Masters.
assign_division_unguarded(row) ==
    Some((IF isna(row.Age) THEN "Masters" ELSE AgeBand(row.Age[1]))
         \o " " \o Gender(row.Sex))

assign_division(row) ==
    IF isna(row.Age) THEN NA
    ELSE Some(AgeBand(row.Age[1]) \o " " \o Gender(row.Sex))

\* The tabs of render_leaderboard, in display order.
divisions ==
    << "Open Men", "Open Women", "Junior Men", "Junior Women",
       "Masters Men", "Masters Women" >>

(***************************************************************************)
(* Helpers over finite sets and sequences.                                 *)
(***************************************************************************)
Range(s) == {s[i] : i \in DOMAIN s}

RECURSIVE Perms(_)
Perms(S) ==
    IF S = {} THEN {<<>>}
    ELSE UNION {{<<x>> \o q : q \in Perms(S \ {x})} : x \in S}

Min(S) == CHOOSE x \in S : \A y \in S : x <= y

Max(S) == CHOOSE x \in S : \A y \in S : x >= y

\* The ascending sequence of the members of a set of integers.
RECURSIVE Ascending(_)
Ascending(S) == IF S = {} THEN <<>> ELSE <<Min(S)>> \o Ascending(S \ {Min(S)})

(***************************************************************************)
(* df.sort_values("Date"): kind="quicksort", na_position="last".           *)
(* Rows with a date come first in ascending date order.  pandas documents  *)
(* quicksort as not stable (numpy's introsort reorders equal keys once an  *)
(* array is longer than 16), so rows with equal dates come in any order.   *)
(* Rows without a date are appended after them in their original order.   *)
(***************************************************************************)
RECURSIVE DatedOrders(_, _)
DatedOrders(d, I) ==
    IF I = {} THEN {<<>>}
    ELSE LET first == Min({d[i].Date[1] : i \in I})
             run   == {i \in I : d[i].Date[1] = first}
         IN  {p \o q : p \in Perms(run), q \in DatedOrders(d, I \ run)}

\* sort_values with na_position="first".
sort_values_Date_na_first(d) ==
    LET dated   == {i \in DOMAIN d : ~isna(d[i].Date)}
        undated == {i \in DOMAIN d : isna(d[i].Date)}
    IN  {Ascending(undated) \o p : p \in DatedOrders(d, dated)}

sort_values_Date(d) ==
    LET dated   == {i \in DOMAIN d : ~isna(d[i].Date)}
        undated == {i \in DOMAIN d : isna(d[i].Date)}
    IN  {p \o Ascending(undated) : p \in DatedOrders(d, dated)}

(***************************************************************************)
(* df.groupby("Name").cumcount() on the sorted table: the number of rows   *)
(* of the same Name that precede row i in the order.                       *)
(***************************************************************************)
Pos(order, i) == CHOOSE k \in DOMAIN order : order[k] = i

cumcount(d, order, i) ==
    Cardinality({k \in 1..(Pos(order, i) - 1) : d[order[k]].Name = d[i].Name})

\* The filter with the limit off by one.
AppearancesUpToFour(d, order) ==
    LET Keep(i) == cumcount(d, order, i) + 1 <= 4
    IN  SelectSeq(order, Keep)

\* df[df["Appearances"] <= 3]
Appearances(d, order) ==
    LET Keep(i) == cumcount(d, order, i) + 1 <= 3
    IN  SelectSeq(order, Keep)

(***************************************************************************)
(* groupby(["Name", "Sex", "Division"], as_index=False)["Dots"].sum():     *)
(* one row per key; a row with a missing key cell is in no group.          *)
(***************************************************************************)
RECURSIVE SumDots(_, _)
SumDots(d, I) ==
    IF I = {} THEN 0
    ELSE LET i == CHOOSE j \in I : TRUE IN d[i].Dots + SumDots(d, I \ {i})

GroupKey(d, div, i) == <<d[i].Name, d[i].Sex[1], div[i][1]>>

Grouped(d, div, rows) == {i \in Range(rows) : ~isna(d[i].Sex) /\ ~isna(div[i])}

groupby_sum(d, div, rows) ==
    LET G == Grouped(d, div, rows)
    IN  { [Name     |-> key[1],
           Sex      |-> key[2],
           Division |-> key[3],
           Dots     |-> SumDots(d, {i \in G : GroupKey(d, div, i) = key})]
          : key \in {GroupKey(d, div, i) : i \in G} }

(***************************************************************************)
(* .sort_values("Dots", ascending=False): descending totals, rows with     *)
(* equal totals in any order (quicksort).                                  *)
(***************************************************************************)
RECURSIVE sort_values_Dots(_)
sort_values_Dots(E) ==
    IF E = {} THEN {<<>>}
    ELSE LET top == Max({e.Dots : e \in E})
             run == {e \in E : e.Dots = top}
         IN  {p \o q : p \in Perms(run), q \in sort_values_Dots(E \ run)}

(***************************************************************************)
(* groupby("Division")["Dots"].rank(ascending=False, method="min"): the    *)
(* values of the division are put in descending order and a value gets the *)
(* lowest position at which it occurs.                                     *)
(***************************************************************************)
RECURSIVE Descending(_)
Descending(vals) ==
    IF vals = <<>> THEN <<>>
    ELSE LET top == Max(Range(vals))
             k   == CHOOSE j \in DOMAIN vals : vals[j] = top
         IN  <<top>> \o
             Descending(SubSeq(vals, 1, k - 1) \o SubSeq(vals, k + 1, Len(vals)))

\* rank with method="dense".
rank_dense(vals, v) == 1 + Cardinality({w \in Range(vals) : w > v})

rank_min(vals, v) ==
    LET s == Descending(vals) IN Min({p \in DOMAIN s : s[p] = v})

Ranked(a) ==
    [k \in DOMAIN a |->
        LET InDiv(e) == e.Division = a[k].Division
            group    == SelectSeq(a, InDiv)
            vals     == [j \in DOMAIN group |-> group[j].Dots]
        IN  [Name     |-> a[k].Name,
             Sex      |-> a[k].Sex,
             Division |-> a[k].Division,
             Dots     |-> a[k].Dots,
             Rank     |-> rank_min(vals, a[k].Dots)]]

(***************************************************************************)
(* Input tables (the result of load_data: Name and Dots are present).      *)
(***************************************************************************)
Male == <<"M">>

MaleLong == <<"M", "a", "l", "e">>

Female == <<"F">>

Row(name, sex, age, dots, date) ==
    [Name |-> name, Sex |-> sex, Age |-> age, Dots |-> dots, Date |-> date]

\* Two meeting dates, and the cell of a date that did not parse.
Dates == {NA, Some(1), Some(2)}

\* Lifter A competes at any date, with or without an age on record, and
\* once as a junior; lifter B is a second lifter of the first meeting.
LimitKinds ==
    {Row("A", Some(Male), age, 0, date) : age \in {NA, Some(30)}, date \in Dates}
    \cup {Row("A", Some(Male), Some(23), 0, Some(1)),
          Row("B", Some(Male), Some(30), 0, Some(1))}

\* The i-th row scores 2^(i-1): a total identifies the rows it sums.
LimitTable(f) == [i \in DOMAIN f |-> [f[i] EXCEPT !.Dots = 2 ^ (i - 1)]]

RankKinds ==
    {Row(name, Some(sex), Some(30), dots, NA) :
        name \in {"A", "B"}, sex \in {Male, MaleLong, Female}, dots \in 1..MaxDots}

\* The i-th row is the result of the i-th meeting.
RankTable(f) == [i \in DOMAIN f |-> [f[i] EXCEPT !.Date = Some(i)]]

Chars == {"m", "M", "f", " "}

SexStrings == UNION {[1..n -> Chars] : n \in 0..MaxSexLen}

SexCells == {NA} \cup {Some(s) : s \in SexStrings}

AgeCells == {NA} \cup {Some(a) : a \in 0..MaxAge}

(***************************************************************************)
(* The program: main() after load_data.                                    *)
(***************************************************************************)
Loaded(table) ==
    /\ df = table
    /\ pc = "loaded"
    /\ division = <<>>
    /\ sorted = <<>>
    /\ kept = <<>>
    /\ agg = <<>>
    /\ outcome = "none"
    /\ tabs = <<>>

Init == \E n \in 0..MaxRows : \E f \in [1..n -> LimitKinds] : Loaded(LimitTable(f))

InitRank == \E n \in 0..MaxRankRows : \E f \in [1..n -> RankKinds] : Loaded(RankTable(f))

\* A table of at most one row, of any sex cell and age cell.
InitClassify ==
    \/ Loaded(<<>>)
    \/ \E sex \in SexCells, age \in AgeCells :
          Loaded(<<Row("A", sex, age, 1, Some(1))>>)

\* process_novice(df) on a table with rows.
ProcessNovice ==
    /\ pc = "loaded"
    /\ df # <<>>
    /\ LET div == [i \in DOMAIN df |-> assign_division(df[i])]
       IN  \E order \in sort_values_Date(df) :
             LET rows == Appearances(df, order)
             IN  \E a \in sort_values_Dots(groupby_sum(df, div, rows)) :
                   /\ division' = div
                   /\ sorted' = order
                   /\ kept' = rows
                   /\ agg' = Ranked(a)
    /\ outcome' = "table"
    /\ pc' = "processed"
    /\ UNCHANGED <<df, tabs>>

\* process_novice(df) on a table without rows: df.apply(..., axis=1) of an
\* empty frame returns a frame, not a column, and whether assigning it to
\* df["Division"] raises or yields an empty column depends on the pandas
\* version.  Either the exception leaves main() or the table is empty.
ProcessNoviceEmpty ==
    /\ pc = "loaded"
    /\ df = <<>>
    /\ \/ outcome' = "table" /\ pc' = "processed"
       \/ outcome' = "error" /\ pc' = "failed"
    /\ UNCHANGED <<df, division, sorted, kept, agg, tabs>>

\* render_leaderboard(processed): per tab, st.info("No data ...") for an
\* empty subset, else the Rank, Name and Dots columns of the subset.
RenderLeaderboard ==
    /\ pc = "processed"
    /\ tabs' = [t \in DOMAIN divisions |->
                  LET InTab(e) == e.Division = divisions[t]
                      sub      == SelectSeq(agg, InTab)
                  IN  IF sub = <<>> THEN NA
                      ELSE Some([k \in DOMAIN sub |->
                                   [Rank |-> sub[k].Rank,
                                    Name |-> sub[k].Name,
                                    Dots |-> sub[k].Dots]])]
    /\ pc' = "rendered"
    /\ UNCHANGED <<df, division, sorted, kept, agg, outcome>>

Next == ProcessNovice \/ ProcessNoviceEmpty \/ RenderLeaderboard

Spec == Init /\ [][Next]_vars

SpecRank == InitRank /\ [][Next]_vars

SpecClassify == InitClassify /\ [][Next]_vars

(***************************************************************************)
(* Vocabulary of the properties.                                           *)
(***************************************************************************)
\* process_novice has returned its table.
Returned == pc \in {"processed", "rendered"} /\ outcome = "table"

NamesOf(d) == {d[i].Name : i \in DOMAIN d}

RowsOf(name) == {i \in DOMAIN df : df[i].Name = name}

\* A qualifying record: age and score present (the score always is).
Qualifying(name) == {i \in RowsOf(name) : ~isna(df[i].Age)}

EntriesOf(name) == {k \in DOMAIN agg : agg[k].Name = name}

RECURSIVE SumTotals(_)
SumTotals(K) ==
    IF K = {} THEN 0
    ELSE LET k == CHOOSE j \in K : TRUE IN agg[k].Dots + SumTotals(K \ {k})

\* Under Spec row i scores 2^(i-1), so row i is summed in a total exactly
\* when bit i-1 of the total is set.
Counted(i, total) == (total \div (2 ^ (i - 1))) % 2 = 1

CountedRows(name) ==
    {i \in DOMAIN df : \E k \in EntriesOf(name) : Counted(i, agg[k].Dots)}

\* Row i is chronologically later than row j; a missing date counts as latest.
Later(i, j) ==
    /\ ~isna(df[j].Date)
    /\ isna(df[i].Date) \/ df[i].Date[1] > df[j].Date[1]

\* T is a choice of the three chronologically earliest rows of Q.
EarliestThree(T, Q) ==
    /\ T \subseteq Q
    /\ Cardinality(T) = 3
    /\ \A i \in T, j \in Q \ T : ~Later(i, j)

Bands == {"Junior", "Open", "Masters"}

Buckets == {"Men", "Women"}

\* The age band and the sex bucket a division label names.
BandOf(label) == CHOOSE b \in Bands : \E g \in Buckets : label = b \o " " \o g

BucketOf(label) == CHOOSE g \in Buckets : \E b \in Bands : label = b \o " " \o g

\* C1: for every participant the reported total is the sum of the scores of
\* their qualifying records when there are at most 3 of them, and of the 3
\* chronologically earliest qualifying records when there are more, also
\* when the participant has records without an age.
C1_TotalOfEarliestQualifying ==
    Returned =>
        \A name \in NamesOf(df) :
            LET Q     == Qualifying(name)
                total == SumTotals(EntriesOf(name))
            IN  IF Cardinality(Q) <= 3
                THEN total = SumDots(df, Q)
                ELSE \E T \in SUBSET Q :
                        EarliestThree(T, Q) /\ total = SumDots(df, T)

\* C2: for every participant name at most 3 input records are counted in
\* the output, taken over all output entries carrying that name.
C2_AtMostThreeCounted ==
    Returned => \A name \in NamesOf(df) : Cardinality(CountedRows(name)) <= 3

\* C2 witness: a participant with more than 3 records whose 3 counted
\* records are spread over two output entries.
C2_Witness ==
    /\ Returned
    /\ \E name \in NamesOf(df) :
          /\ Cardinality(Qualifying(name)) > 3
          /\ Cardinality(CountedRows(name)) = 3
          /\ Cardinality(EntriesOf(name)) = 2

\* C3: within a division a greater total has a smaller rank, equal totals
\* have equal ranks, and the rank is 1 plus the number of entries of the
\* division with a strictly greater total.
C3_RankByTotal ==
    Returned =>
        \A x, y \in DOMAIN agg :
            agg[x].Division = agg[y].Division =>
                /\ agg[x].Dots > agg[y].Dots => agg[x].Rank < agg[y].Rank
                /\ agg[x].Dots = agg[y].Dots => agg[x].Rank = agg[y].Rank
                /\ agg[x].Rank =
                     1 + Cardinality({z \in DOMAIN agg :
                                        /\ agg[z].Division = agg[x].Division
                                        /\ agg[z].Dots > agg[x].Dots})

\* C3 witness: two entries tied for best in a division and a third behind
\* them, ranked 1, 1, 3.
C3_Witness ==
    /\ Returned
    /\ \E x, y, z \in DOMAIN agg :
          /\ x # y
          /\ agg[x].Division = agg[y].Division
          /\ agg[y].Division = agg[z].Division
          /\ agg[x].Dots = agg[y].Dots
          /\ agg[z].Dots < agg[x].Dots
          /\ agg[x].Rank = 1 /\ agg[y].Rank = 1 /\ agg[z].Rank = 3

\* C4: a record without an age gets no division and is counted in no
\* total, and a participant whose records all lack an age has no entry.
C4_NoAgeNoDivision ==
    Returned =>
        /\ \A i \in DOMAIN df :
              isna(df[i].Age) =>
                  /\ isna(division[i])
                  /\ \A k \in DOMAIN agg : ~Counted(i, agg[k].Dots)
        /\ \A name \in NamesOf(df) :
              Qualifying(name) = {} => EntriesOf(name) = {}

\* C4 witness: a record without an age survives the appearance limit while
\* its participant has an entry from other records.
C4_Witness ==
    /\ Returned
    /\ \E i \in Range(kept) :
          /\ isna(df[i].Age)
          /\ EntriesOf(df[i].Name) # {}

\* C5: on an empty input, or one without any record with an age, the
\* pipeline returns an explicit EmptyInput outcome and no ranked table.
C5_EmptyInputOutcome ==
    (pc # "loaded" /\ \A i \in DOMAIN df : isna(df[i].Age)) =>
        outcome = "EmptyInput"

\* C6 as stated: with an age present the bucket is Men exactly when the sex
\* string itself starts with "m" or "M", and Women otherwise, also for a
\* missing sex and a string that starts with whitespace.
C6_MenIffFirstCharM ==
    Returned =>
        \A i \in DOMAIN df :
            ~isna(df[i].Age) =>
                (BucketOf(division[i][1]) = "Men"
                    <=> /\ ~isna(df[i].Sex)
                        /\ df[i].Sex[1] # <<>>
                        /\ df[i].Sex[1][1] \in {"m", "M"})

\* C6 amended: with an age present the bucket is Men exactly when the first
\* character of the sex string that is not whitespace is "m" or "M", and
\* Women otherwise, also for a missing sex.
C6_MenIffFirstNonSpaceM ==
    Returned =>
        \A i \in DOMAIN df :
            ~isna(df[i].Age) =>
                /\ BucketOf(division[i][1]) \in Buckets
                /\ BucketOf(division[i][1]) = "Men"
                     <=> /\ ~isna(df[i].Sex)
                         /\ \E k \in DOMAIN df[i].Sex[1] :
                               /\ df[i].Sex[1][k] \in {"m", "M"}
                               /\ \A j \in 1..(k - 1) : df[i].Sex[1][j] = " "

\* C6 witness: a sex string with whitespace before a lower-case "m" is
\* classified, and lands in the Men bucket.
C6_Witness ==
    /\ Returned
    /\ \E i \in DOMAIN df :
          /\ df[i].Sex = Some(<<" ", "m">>)
          /\ ~isna(df[i].Age)
          /\ BucketOf(division[i][1]) = "Men"

\* C7: the age band of the label is Junior below 24, Open from 24 to below
\* 40 and Masters from 40, in both sex buckets.
C7_AgeBands ==
    Returned =>
        \A i \in DOMAIN df :
            ~isna(df[i].Age) =>
                LET a == df[i].Age[1]
                    b == BandOf(division[i][1])
                IN  /\ a < 24 => b = "Junior"
                    /\ (24 <= a /\ a < 40) => b = "Open"
                    /\ a >= 40 => b = "Masters"

\* C7 witness: a woman aged exactly 40 is classified as Masters Women.
C7_Witness ==
    /\ Returned
    /\ \E i \in DOMAIN df :
          /\ df[i].Age = Some(40)
          /\ division[i] = Some("Masters Women")

\* C8: no two output entries have the same name and the same division.
C8_OneEntryPerNameAndDivision ==
    Returned =>
        \A x, y \in DOMAIN agg :
            (agg[x].Name = agg[y].Name /\ agg[x].Division = agg[y].Division)
                => x = y

\* C9: when a participant has more than 3 records, no dated record is
\* dropped while an undated record of that participant is retained.
C9_UndatedDroppedFirst ==
    Returned =>
        \A name \in NamesOf(df) :
            Cardinality(RowsOf(name)) > 3 =>
                \A i, j \in RowsOf(name) :
                    (~isna(df[i].Date) /\ isna(df[j].Date) /\ j \in Range(kept))
                        => i \in Range(kept)

\* C9 witness: a participant with more than 3 records keeps a dated record
\* that comes after an undated one in the input, keeps that undated record
\* too, and loses another undated record.
C9_Witness ==
    /\ Returned
    /\ \E name \in NamesOf(df) :
          /\ Cardinality(RowsOf(name)) > 3
          /\ \E i, j, l \in RowsOf(name) :
                /\ j < i
                /\ ~isna(df[i].Date) /\ isna(df[j].Date) /\ isna(df[l].Date)
                /\ i \in Range(kept) /\ j \in Range(kept)
                /\ l \notin Range(kept)

\* C10: of two records of a participant with equal dates the one that
\* comes first in the input is retained whenever the later one is.
C10_EqualDatesKeepInputOrder ==
    Returned =>
        \A i, j \in DOMAIN df :
            (/\ i < j
             /\ df[i].Name = df[j].Name
             /\ df[i].Date = df[j].Date
             /\ j \in Range(kept))
                => i \in Range(kept)

====
